---------------------------- MODULE Spec2Model ----------------------------
(***************************************************************************)
(* A model of the downloader crate: the Fabric overlay merge               *)
(* (manifest.rs), the download plan of download_by_manifest                *)
(* (client/client_downloader.rs), verify_file (client/verify.rs) and the   *)
(* download engine that runs the plan.                                     *)
(*                                                                         *)
(* A Rust String is modelled as a sequence of atoms.  An atom is a TLA+    *)
(* string standing for one character (".", ":", "/", "a") or for a run of  *)
(* characters that no operation of the program ever splits ("versions",    *)
(* ".jar").  format! and PathBuf::push are concatenation of such           *)
(* sequences; str::split, str::replace and the slice hash[..2] work on     *)
(* the atoms.                                                              *)
(***************************************************************************)
EXTENDS Integers, Sequences, FiniteSets, TLC

VARIABLES
    pc,              \* position of the modelled call
    base_manifest,   \* the caller's Manifest handed to manifest_from_fabric by &mut
    fabric_manifest, \* the FabricManifest handed to manifest_from_fabric
    resolved,        \* what setup_fabric got back from manifest_from_fabric
    manifest,        \* the Manifest handed to download_by_manifest
    asset_objects,   \* the "objects" map of the fetched asset index document
    version_path,    \* the version_path argument of download_by_manifest
    downloads,       \* the Vec<DownloadData> built by download_by_manifest
    file,            \* verify_file: what is on disk at the path
    expected_hash,   \* verify_file: the expected_hash argument
    status,          \* verify_file: the returned VerifyStatus
    disk,            \* the destination paths that hold a file with the expected content
    next_job,        \* engine: index of the next descriptor no worker has taken
    workers,         \* engine: what each worker of the pool is doing
    results,         \* engine: the shared result collector
    ret,             \* what download_by_manifest or download_version returned
    main_manifest,   \* ClientDownloader.main_manifest.versions
    version_id,      \* download_version: the version_id argument
    launcher,        \* download_version: the launcher argument
    version_option,  \* download_version: what get_version found
    effects          \* download_version: its requests and file system calls, in order

vars == <<pc, base_manifest, fabric_manifest, resolved, manifest, asset_objects,
          version_path, downloads, file, expected_hash, status, disk, next_job,
          workers, results, ret, main_manifest, version_id, launcher, version_option, effects>>

mergeVars  == <<base_manifest, fabric_manifest, resolved>>
planVars   == <<manifest, asset_objects, version_path, downloads>>
verifyVars == <<file, expected_hash, status>>
engineVars == <<disk, next_job, workers, results, ret>>
versionVars == <<main_manifest, version_id, launcher, version_option, effects>>

-----------------------------------------------------------------------------
(* Option<T> *)

None == [tag |-> "None"]

Some(x) == [tag |-> "Some", val |-> x]

unwrap_or(o, d) == IF o.tag = "Some" THEN o.val ELSE d

-----------------------------------------------------------------------------
(* Strings *)

RECURSIVE Concat(_)
\* the concatenation of a sequence of strings (format!, String + &str)
Concat(ss) == IF ss = <<>> THEN <<>> ELSE Head(ss) \o Concat(Tail(ss))

RECURSIVE split(_, _)
\* str::split(sep): the pieces between the separators; never empty, "" gives [""]
split(s, sep) ==
    IF \A i \in 1..Len(s) : s[i] # sep
    THEN <<s>>
    ELSE LET i == CHOOSE k \in 1..Len(s) :
                      s[k] = sep /\ \A j \in 1..(k - 1) : s[j] # sep
         IN  <<SubSeq(s, 1, i - 1)>> \o split(SubSeq(s, i + 1, Len(s)), sep)

\* str::replace(from, to) for a single character
replace(s, from, to) == [i \in 1..Len(s) |-> IF s[i] = from THEN to ELSE s[i]]

RECURSIVE join(_, _)
\* the pieces with sep between them
join(parts, sep) ==
    IF Len(parts) = 0 THEN <<>>
    ELSE IF Len(parts) = 1 THEN parts[1]
    ELSE parts[1] \o <<sep>> \o join(Tail(parts), sep)

\* PathBuf::push / PathBuf::join of a relative path
path_push(p, q) == p \o <<"/">> \o q

-----------------------------------------------------------------------------
(* manifest.rs: maven_to_path *)

\* a variant that rejects only the coordinates with too few parts
maven_to_path_panics_too_few(coordinate) == Len(split(coordinate, ":")) < 3

\* maven_to_path panics ("Invalid format") unless the coordinate has three parts
maven_to_path_panics(coordinate) == Len(split(coordinate, ":")) # 3

maven_to_path(coordinate) ==
    LET parts    == split(coordinate, ":")
        group    == replace(parts[1], ".", "/")
        artifact == parts[2]
        version  == parts[3]
    IN  Concat(<<group, <<"/">>, artifact, <<"/">>, version, <<"/">>, artifact,
                 <<"/">>, artifact, <<"-">>, version, <<".jar">>>>)


-----------------------------------------------------------------------------
(* manifest.rs: manifest_from_fabric *)

\* one FabricManifestLibrary turned into a ManifestLibrary (the closure of the map)
fabric_library(lib) ==
    LET path == maven_to_path(lib.name)
        sha1 == unwrap_or(lib.sha1, <<>>)
        size == unwrap_or(lib.size, 1)
    IN  [name      |-> lib.name,
         downloads |-> [artifact |-> Some([path |-> Some(path),
                                           sha1 |-> sha1,
                                           size |-> size,
                                           url  |-> lib.url \o maven_to_path(lib.name)])],
         rules     |-> None]

\* fabric_manifest.libraries.into_iter().map(..).collect()
fabric_libraries(fabric) ==
    [i \in 1..Len(fabric.libraries) |-> fabric_library(fabric.libraries[i])]

\* the iterator panics at the first library whose coordinate maven_to_path rejects
fabric_libraries_panics(fabric) ==
    \E i \in 1..Len(fabric.libraries) : maven_to_path_panics(fabric.libraries[i].name)

\* a variant that extends the base libraries with the overlay's
combined_libraries_base_first(fabric, base) == base.libraries \o fabric_libraries(fabric)

\* let mut combined_libraries = fabric_libraries; combined_libraries.extend(base..)
combined_libraries(fabric, base) == fabric_libraries(fabric) \o base.libraries

\* a variant that puts the overlay's arguments ahead of the base's and takes the
\* overlay's id
merged_manifest_overlay_wins(fabric, base) ==
    [base EXCEPT
        !.arguments    = [game |-> fabric.arguments.game \o base.arguments.game,
                          jvm  |-> fabric.arguments.jvm \o base.arguments.jvm],
        !.libraries    = combined_libraries(fabric, base),
        !.id           = fabric.id,
        !.main_class   = fabric.main_class,
        !.release_time = fabric.release_time,
        !.time         = fabric.time,
        !.type_        = fabric.type_]

\* the Manifest of the Ok(..) the function ends with
merged_manifest(fabric, base) ==
    [base EXCEPT
        !.arguments    = [game |-> base.arguments.game \o fabric.arguments.game,
                          jvm  |-> base.arguments.jvm \o fabric.arguments.jvm],
        !.libraries    = combined_libraries(fabric, base),
        !.main_class   = fabric.main_class,
        !.release_time = fabric.release_time,
        !.time         = fabric.time,
        !.type_        = fabric.type_]

\* a variant that extends the caller's library list in place
base_manifest_after_extended(fabric, base) ==
    IF fabric_libraries_panics(fabric) THEN base
    ELSE [base EXCEPT !.libraries = fabric_libraries(fabric) \o base.libraries]

\* *base_manifest when the call is over: the function only reads it (clone())
base_manifest_after(fabric, base) == base

\* the call as a whole: a panic that unwinds out of it, or Ok(manifest)
manifest_from_fabric(fabric, base) ==
    IF fabric_libraries_panics(fabric)
    THEN [tag |-> "Panic", base_manifest |-> base_manifest_after(fabric, base)]
    ELSE [tag |-> "Ok", val |-> merged_manifest(fabric, base),
          base_manifest |-> base_manifest_after(fabric, base)]

-----------------------------------------------------------------------------
(* The manifests the merge is run on *)

MaxSegments == 4
MaxFabricLibs == 2
MaxBaseLibs == 2

\* the segment a generated coordinate has at position i
Segment(group, i) ==
    IF i = 1 THEN group ELSE IF i = 2 THEN <<"l">> ELSE IF i = 3 THEN <<"1">> ELSE <<"x">>

Groups == {<<"n", ".", "f">>, <<"o">>}

\* group:l:1 and its malformed neighbours group, group:l, group:l:1:x, ...
Coordinates ==
    {join([i \in 1..n |-> Segment(g, i)], ":") : g \in Groups, n \in 1..MaxSegments}

SeqsUpTo(S, n) == UNION {[1..k -> S] : k \in 0..n}

FabricLibs ==
    {[name |-> c, url |-> <<"https://maven/">>, sha1 |-> h[1], size |-> h[2]] :
        c \in Coordinates, h \in {<<None, None>>, <<Some(<<"c", "d">>), Some(7)>>}}

BaseLibs ==
    {[name      |-> <<"n", ".", "f", ":", "l", ":", "1">>,
      downloads |-> [artifact |-> Some([path |-> Some(<<"n/f/l/1/l-1.jar">>),
                                        sha1 |-> <<"a", "b">>,
                                        size |-> 3,
                                        url  |-> <<"https://libs/n/f/l/1/l-1.jar">>])],
      rules     |-> None],
     [name      |-> <<"m", ":", "k", ":", "2">>,
      downloads |-> [artifact |-> None],
      rules     |-> Some(<<[action |-> "disallow", os |-> None]>>)]}

FabricArguments ==
    {[game |-> <<>>, jvm |-> <<>>], [game |-> <<"--fabric">>, jvm |-> <<"-Dfabric">>]}

FabricManifests ==
    {[arguments     |-> a,
      inherits_from |-> <<"1.20">>,
      id            |-> <<"fabric-loader-1.20">>,
      libraries     |-> ls,
      main_class    |-> <<"KnotClient">>,
      release_time  |-> <<"2023-07-01">>,
      time          |-> <<"2023-07-02">>,
      type_         |-> "Snapshot"] :
        a \in FabricArguments, ls \in SeqsUpTo(FabricLibs, MaxFabricLibs)}

ManifestWith(ls) ==
    [arguments      |-> [game |-> <<"--username">>, jvm |-> <<"-Xss1M">>],
     asset_index    |-> [id |-> <<"5">>, sha1 |-> <<"b", "a">>, size |-> 2,
                         url |-> <<"https://meta/5.json">>],
     downloads      |-> [client |-> [path |-> None, sha1 |-> <<"a", "a">>, size |-> 9,
                                     url |-> <<"https://meta/client.jar">>]],
     id             |-> <<"1.20">>,
     java_version   |-> [component |-> <<"java-runtime-gamma">>, major_version |-> 17],
     libraries      |-> ls,
     main_class     |-> <<"Main">>,
     release_time   |-> <<"2023-06-01">>,
     time           |-> <<"2023-06-02">>,
     type_          |-> "Release"]

BaseManifests == {ManifestWith(ls) : ls \in SeqsUpTo(BaseLibs, MaxBaseLibs)}

-----------------------------------------------------------------------------
(* The variables a specification does not use stay at these values *)

IdleMerge ==
    /\ base_manifest = None
    /\ fabric_manifest = None
    /\ resolved = None

IdlePlan ==
    /\ manifest = None
    /\ asset_objects = <<>>
    /\ version_path = None
    /\ downloads = <<>>

IdleVerify ==
    /\ file = None
    /\ expected_hash = <<>>
    /\ status = "NotVerified"

IdleEngine ==
    /\ disk = {}
    /\ next_job = 1
    /\ workers = <<>>
    /\ results = <<>>
    /\ ret = None

IdleVersion ==
    /\ main_manifest = <<>>
    /\ version_id = <<>>
    /\ launcher = None
    /\ version_option = None
    /\ effects = <<>>

-----------------------------------------------------------------------------
(* setup_fabric: the merge of a base manifest with a Fabric manifest *)

InitMerge ==
    /\ pc = "setup_fabric"
    /\ base_manifest \in BaseManifests
    /\ fabric_manifest \in FabricManifests
    /\ resolved = None
    /\ IdlePlan /\ IdleVerify /\ IdleEngine /\ IdleVersion

\* client_downloader.rs: setup_fabric calls manifest_from_fabric(data, base_manifest)
SetupFabric ==
    /\ pc = "setup_fabric"
    /\ LET r == manifest_from_fabric(fabric_manifest, base_manifest)
       IN  /\ base_manifest' = r.base_manifest
           /\ IF r.tag = "Panic"
              THEN pc' = "panicked" /\ resolved' = resolved
              ELSE pc' = "merged" /\ resolved' = Some(r.val)
    /\ UNCHANGED <<versionVars, fabric_manifest, planVars, verifyVars, engineVars>>

\* the same overlay merged once more with the caller's base manifest
SetupFabricAgain ==
    /\ pc = "merged"
    /\ LET r == manifest_from_fabric(fabric_manifest, base_manifest)
       IN  /\ base_manifest' = r.base_manifest
           /\ IF r.tag = "Panic"
              THEN pc' = "panicked" /\ resolved' = None
              ELSE pc' = "merged_again" /\ resolved' = Some(r.val)
    /\ UNCHANGED <<versionVars, fabric_manifest, planVars, verifyVars, engineVars>>

NextMerge == SetupFabric \/ SetupFabricAgain

SpecMerge == InitMerge /\ [][NextMerge]_vars


-----------------------------------------------------------------------------
(* Claims about the merge, checked under SpecMerge *)

Merged == pc \in {"merged", "merged_again"}

Names(libs) == [i \in 1..Len(libs) |-> libs[i].name]

Count(seq, x) == Cardinality({i \in 1..Len(seq) : seq[i] = x})

\* a coordinate of exactly three colon-separated segments has exactly two colons
WellFormed(coordinate) == Count(coordinate, ":") = 2

\* C1: the libraries of the merged manifest are the overlay's libraries in their
\* order followed by the base's libraries in their order: every overlay library
\* precedes every base library, and every coordinate occurs as often as in the
\* overlay and the base together.
C1_OverlayLibrariesFirst ==
    Merged =>
        LET libs    == resolved.val.libraries
            overlay == fabric_manifest.libraries
            base    == base_manifest.libraries
        IN  /\ Len(libs) = Len(overlay) + Len(base)
            /\ \A i \in 1..Len(overlay) : libs[i].name = overlay[i].name
            /\ \A j \in 1..Len(base) : libs[Len(overlay) + j] = base[j]
            /\ \A c \in Coordinates \cup {base[j].name : j \in 1..Len(base)} :
                   Count(Names(libs), c) = Count(Names(overlay), c) + Count(Names(base), c)

\* two overlay libraries merged with a base that has a library of the same coordinate
C1_Witness ==
    /\ pc = "merged"
    /\ Len(fabric_manifest.libraries) = 2
    /\ fabric_manifest.libraries[1].name # fabric_manifest.libraries[2].name
    /\ Len(base_manifest.libraries) = 2
    /\ \E j \in 1..2 : base_manifest.libraries[j].name = fabric_manifest.libraries[2].name

\* the Maven layout of g:a:v: g/a/v/a-v.jar with the dots of g turned into slashes
MavenLayout(coordinate) ==
    LET colons == {i \in 1..Len(coordinate) : coordinate[i] = ":"}
        c1     == CHOOSE i \in colons : \A j \in colons : i <= j
        c2     == CHOOSE i \in colons : \A j \in colons : j <= i
        g      == SubSeq(coordinate, 1, c1 - 1)
        a      == SubSeq(coordinate, c1 + 1, c2 - 1)
        v      == SubSeq(coordinate, c2 + 1, Len(coordinate))
    IN  [i \in 1..Len(g) |-> IF g[i] = "." THEN "/" ELSE g[i]]
            \o <<"/">> \o a \o <<"/">> \o v \o <<"/">> \o a \o <<"-">> \o v \o <<".jar">>

\* C2: every overlay library of three segments g:a:v gets the path g/a/v/a-v.jar
\* (dots of g replaced by slashes), and its download URL is the overlay's
\* repository URL followed by that path.
C2_MavenLayout ==
    Merged =>
        \A i \in 1..Len(fabric_manifest.libraries) :
            LET lib      == fabric_manifest.libraries[i]
                artifact == resolved.val.libraries[i].downloads.artifact.val
            IN  /\ artifact.path = Some(MavenLayout(lib.name))
                /\ artifact.url = lib.url \o MavenLayout(lib.name)

\* C3: an overlay with a malformed coordinate, wherever it stands, makes the merge
\* abort: the call panics and no resolved manifest exists.
C3_MalformedAborts ==
    (/\ pc # "setup_fabric"
     /\ \E i \in 1..Len(fabric_manifest.libraries) :
            ~WellFormed(fabric_manifest.libraries[i].name))
        => (pc = "panicked" /\ resolved = None)

\* the malformed library is the second one, after a well-formed one
C3_Witness ==
    /\ pc = "panicked"
    /\ Len(fabric_manifest.libraries) = 2
    /\ WellFormed(fabric_manifest.libraries[1].name)
    /\ Count(fabric_manifest.libraries[2].name, ":") = 3

\* C10: no step of the merge changes the caller's base manifest, and a second merge
\* of the same overlay returns the manifest the first one returned.
C10_BaseUntouched ==
    [][/\ base_manifest' = base_manifest
       /\ (pc = "merged" /\ pc' = "merged_again") => resolved' = resolved]_vars

\* merged twice, with libraries on both sides
C10_Witness ==
    /\ pc = "merged_again"
    /\ Len(fabric_manifest.libraries) = 2
    /\ Len(base_manifest.libraries) = 2
    /\ resolved.tag = "Some"


\* C11: the merged manifest has the overlay's main class, time, release time and
\* type, the base's game and jvm arguments followed by the overlay's, each in
\* their order, and the base's id, asset index, client download and java runtime
\* component.
C11_MergedFields ==
    Merged =>
        LET r  == resolved.val
            b  == base_manifest
            f  == fabric_manifest
            bg == Len(b.arguments.game)
            bj == Len(b.arguments.jvm)
        IN  /\ r.main_class = f.main_class
            /\ r.time = f.time
            /\ r.release_time = f.release_time
            /\ r.type_ = f.type_
            /\ Len(r.arguments.game) = bg + Len(f.arguments.game)
            /\ \A i \in 1..bg : r.arguments.game[i] = b.arguments.game[i]
            /\ \A i \in 1..Len(f.arguments.game) : r.arguments.game[bg + i] = f.arguments.game[i]
            /\ Len(r.arguments.jvm) = bj + Len(f.arguments.jvm)
            /\ \A i \in 1..bj : r.arguments.jvm[i] = b.arguments.jvm[i]
            /\ \A i \in 1..Len(f.arguments.jvm) : r.arguments.jvm[bj + i] = f.arguments.jvm[i]
            /\ r.id = b.id
            /\ r.asset_index = b.asset_index
            /\ r.downloads.client = b.downloads.client
            /\ r.java_version = b.java_version

\* an overlay with arguments of its own, and with values that differ from the base's
C11_Witness ==
    /\ pc = "merged"
    /\ fabric_manifest.arguments.game # <<>>
    /\ fabric_manifest.arguments.jvm # <<>>
    /\ base_manifest.arguments.game # <<>>
    /\ fabric_manifest.main_class # base_manifest.main_class
    /\ fabric_manifest.type_ # base_manifest.type_
    /\ fabric_manifest.id # base_manifest.id
    /\ resolved.val.type_ = "Snapshot"

-----------------------------------------------------------------------------
(* client_downloader.rs: the download plan of download_by_manifest *)

\* the base_bath argument
base_bath == <<"base">>

\* Path::file_name: the last component
file_name(path) == LET parts == split(path, "/") IN parts[Len(parts)]

\* version_path.unwrap_or(base_bath/versions/<id>/<id>.jar)
version_path_or_default(m, vp) ==
    unwrap_or(vp, path_push(path_push(path_push(base_bath, <<"versions">>), m.id),
                            m.id \o <<".jar">>))

\* // Add client
client_download(m, vp) ==
    [url         |-> m.downloads.client.url,
     file_name   |-> file_name(version_path_or_default(m, vp)),
     output_path |-> version_path_or_default(m, vp),
     sha1        |-> m.downloads.client.sha1,
     total_size  |-> m.downloads.client.size]

\* // Add asset index
asset_index_download(m) ==
    [url         |-> m.asset_index.url,
     file_name   |-> m.asset_index.id \o <<".json">>,
     output_path |-> path_push(path_push(path_push(base_bath, <<"assets">>), <<"indexes">>),
                               m.asset_index.id \o <<".json">>),
     sha1        |-> m.asset_index.sha1,
     total_size  |-> m.asset_index.size]

\* the closure of // Add assets: one entry (p, obj) of the "objects" map
asset_download(obj) ==
    [url         |-> Concat(<<<<"https://resources.download.minecraft.net/">>,
                              SubSeq(obj.hash, 1, 2), <<"/">>, obj.hash>>),
     file_name   |-> obj.name,
     output_path |-> path_push(path_push(path_push(path_push(base_bath, <<"assets">>),
                                                   <<"objects">>),
                                         SubSeq(obj.hash, 1, 2)),
                               obj.hash),
     sha1        |-> obj.hash,
     total_size  |-> obj.size]

\* // Add assets: object.iter().map(..).collect(), in the order of the map
asset_downloads(objects) ==
    [i \in 1..Len(objects) |-> asset_download(objects[i])]

\* DownloadData::from(artifact)
download_data_from(artifact) ==
    [url         |-> artifact.url,
     file_name   |-> file_name(artifact.url),
     output_path |-> <<>>,
     sha1        |-> artifact.sha1,
     total_size  |-> artifact.size]

\* the closure of // Add libraries to download, for a library with an artifact
library_download(l) ==
    LET artifact == l.downloads.artifact.val
        libs     == path_push(base_bath, <<"libraries">>)
        path     == IF artifact.path.tag = "Some"
                    THEN path_push(libs, artifact.path.val)
                    ELSE libs
    IN  [download_data_from(artifact) EXCEPT !.output_path = path]

\* the filter_map keeps the libraries that carry an artifact
library_is_planned(l) == l.downloads.artifact.tag = "Some"

RECURSIVE library_downloads(_)
\* // Add libraries to download: filter_map over manifest.libraries
library_downloads(libs) ==
    IF libs = <<>> THEN <<>>
    ELSE (IF library_is_planned(Head(libs)) THEN <<library_download(Head(libs))>> ELSE <<>>)
             \o library_downloads(Tail(libs))

\* a variant that plans the libraries ahead of the assets
download_plan_libraries_first(m, objects, vp) ==
    <<client_download(m, vp), asset_index_download(m)>>
        \o library_downloads(m.libraries) \o asset_downloads(objects)

\* the downloads vector when the four blocks have run
download_plan(m, objects, vp) ==
    <<client_download(m, vp), asset_index_download(m)>>
        \o asset_downloads(objects) \o library_downloads(m.libraries)

-----------------------------------------------------------------------------
(* The manifests and asset indexes a plan is built from *)

MaxObjects == 2
MaxLibraries == 2

Hashes == {<<"a", "b", "c">>, <<"a", "b", "d">>, <<"e", "f", "c">>}

\* the key of the i-th entry of the "objects" map: keys are distinct
ObjectName(i) == <<"minecraft/object-", ToString(i)>>

AssetIndexes(H, n) ==
    UNION {{[i \in 1..k |-> [name |-> ObjectName(i), hash |-> hs[i], size |-> 4]] :
               hs \in [1..k -> H]} : k \in 0..n}

LibFile(p, tail) ==
    [path |-> p, sha1 |-> <<"a", "b">>, size |-> 3, url |-> <<"https://libs/">> \o tail]

PlanLibs ==
    {[name      |-> <<"n", ".", "f", ":", "l", ":", "1">>,
      downloads |-> [artifact |-> Some(LibFile(Some(<<"n", "/", "f", "/", "l-1.jar">>),
                                               <<"n", "/", "f", "/", "l-1.jar">>))],
      rules     |-> None],
     [name      |-> <<"m", ":", "k", ":", "2">>,
      downloads |-> [artifact |-> None],
      rules     |-> None],
     [name      |-> <<"o", ":", "native", ":", "3">>,
      downloads |-> [artifact |-> Some(LibFile(Some(<<"o", "/", "native-3.jar">>),
                                               <<"o", "/", "native-3.jar">>))],
      rules     |-> Some(<<[action |-> "allow", os |-> None],
                           [action |-> "disallow", os |-> None]>>)],
     [name      |-> <<"p", ":", "q", ":", "4">>,
      downloads |-> [artifact |-> Some(LibFile(None, <<"p", "/", "q-4.jar">>))],
      rules     |-> Some(<<[action |-> "disallow", os |-> Some("osx")]>>)]}

VersionPaths == {None, Some(<<"custom", "/", "game.jar">>)}

InitPlan ==
    /\ pc = "plan"
    /\ manifest \in {ManifestWith(ls) : ls \in SeqsUpTo(PlanLibs, MaxLibraries)}
    /\ asset_objects \in AssetIndexes(Hashes, MaxObjects)
    /\ version_path \in VersionPaths
    /\ downloads = <<>>
    /\ IdleMerge /\ IdleVerify /\ IdleEngine /\ IdleVersion

\* download_by_manifest up to the call of the engine: the asset index was fetched
\* and parsed, the four blocks filled the downloads vector
BuildPlan ==
    /\ pc = "plan"
    /\ downloads' = download_plan(manifest, asset_objects, version_path)
    /\ pc' = "planned"
    /\ UNCHANGED <<versionVars, manifest, asset_objects, version_path, mergeVars, verifyVars, engineVars>>

\* client.get(asset_index.url).send()? or serde_json::from_reader(response)? fails:
\* download_by_manifest returns the error with the assets and libraries unplanned
AssetIndexFetchFails ==
    /\ pc = "plan"
    /\ downloads' = <<client_download(manifest, version_path), asset_index_download(manifest)>>
    /\ pc' = "io_error"
    /\ ret' = [tag |-> "Err", val |-> "Request"]
    /\ UNCHANGED <<versionVars, manifest, asset_objects, version_path, mergeVars, verifyVars,
                   disk, next_job, workers, results>>

NextPlan == BuildPlan \/ AssetIndexFetchFails

SpecPlan == InitPlan /\ [][NextPlan]_vars


-----------------------------------------------------------------------------
(* Claims about the plan, checked under SpecPlan *)

\* the descriptors that follow the client, the asset index and the objects
LibraryPart == SubSeq(downloads, 3 + Len(asset_objects), Len(downloads))

HasArtifact(l) == l.downloads.artifact.tag = "Some"

\* <store_root>/libraries/<path>, or <store_root>/libraries when the artifact names no path
LibraryDestination(l) ==
    LET a == l.downloads.artifact.val
    IN  IF a.path = None THEN <<"base", "/", "libraries">>
        ELSE <<"base", "/", "libraries", "/">> \o a.path.val

\* the library part of the plan is one descriptor per library of libs, in that order
LibraryPartIs(libs) ==
    /\ Len(LibraryPart) = Len(libs)
    /\ \A k \in 1..Len(libs) :
           /\ LibraryPart[k].url = libs[k].downloads.artifact.val.url
           /\ LibraryPart[k].sha1 = libs[k].downloads.artifact.val.sha1
           /\ LibraryPart[k].output_path = LibraryDestination(libs[k])

\* C4: the plan is the client descriptor (at <store_root>/versions/<id>/<id>.jar
\* unless a version path is given), then the asset index descriptor (at
\* <store_root>/assets/indexes/<index-id>.json), then one descriptor per object of
\* the index (from <host>/<hash[0:2]>/<hash> to
\* <store_root>/assets/objects/<hash[0:2]>/<hash>, whatever the object's name), then
\* the library descriptors in the order of the manifest's libraries.
C4_PlanOrder ==
    pc = "planned" =>
        LET n == Len(asset_objects)
        IN  /\ Len(downloads) >= 2 + n
            /\ downloads[1].url = manifest.downloads.client.url
            /\ downloads[1].output_path =
                   IF version_path = None
                   THEN <<"base", "/", "versions", "/">> \o manifest.id \o <<"/">>
                            \o manifest.id \o <<".jar">>
                   ELSE version_path.val
            /\ downloads[2].url = manifest.asset_index.url
            /\ downloads[2].output_path =
                   <<"base", "/", "assets", "/", "indexes", "/">>
                       \o manifest.asset_index.id \o <<".json">>
            /\ \A i \in 1..n :
                   LET h == asset_objects[i].hash
                   IN  /\ downloads[2 + i].url =
                              <<"https://resources.download.minecraft.net/", h[1], h[2], "/">> \o h
                       /\ downloads[2 + i].output_path =
                              <<"base", "/", "assets", "/", "objects", "/", h[1], h[2], "/">> \o h
                       /\ downloads[2 + i].sha1 = h
            /\ LibraryPartIs(SelectSeq(manifest.libraries, HasArtifact))

\* a plan with two objects and two planned libraries, at the default version path
C4_Witness ==
    /\ pc = "planned"
    /\ version_path = None
    /\ Len(asset_objects) = 2
    /\ Len(manifest.libraries) = 2
    /\ Len(downloads) = 6
    /\ manifest.libraries[1] # manifest.libraries[2]

\* C5: no two descriptors of a plan have the same destination path.
C5_DistinctDestinations ==
    pc = "planned" =>
        \A i, j \in 1..Len(downloads) :
            i # j => downloads[i].output_path # downloads[j].output_path

\* the operating system the rules are evaluated for
CurrentOs == "linux"

RuleMatches(r) == r.os = None \/ r.os.val = CurrentOs

\* the action of the last matching rule is "disallow"
Disallowed(rules) ==
    \E i \in 1..Len(rules) :
        /\ RuleMatches(rules[i])
        /\ rules[i].action = "disallow"
        /\ \A j \in (i + 1)..Len(rules) : ~RuleMatches(rules[j])

Included(l) == HasArtifact(l) /\ (l.rules = None \/ ~Disallowed(l.rules.val))

\* C6: the libraries that get a descriptor are those that carry an artifact and
\* are not excluded by their rules (no rules: included; last matching rule
\* "disallow": left out; no artifact: skipped).
C6_LibraryFilter ==
    pc = "planned" => LibraryPartIs(SelectSeq(manifest.libraries, Included))


-----------------------------------------------------------------------------
(* client/verify.rs: verify_file *)

\* str::to_lowercase on the characters a hash is written with
to_lowercase(s) ==
    [i \in 1..Len(s) |-> IF s[i] = "A" THEN "a" ELSE IF s[i] = "B" THEN "b" ELSE s[i]]

\* sha1::chksum(&path): Err when the file cannot be opened or read
chksum_is_ok(f) == f.tag = "File"

\* digest.to_hex_lowercase(): a fixed number of lowercase hex digits, different
\* for different contents
to_hex_lowercase(f) == IF f.content = "x" THEN <<"a", "b">> ELSE <<"b", "a">>

\* a variant that compares the expected hash as it was given
verify_file_case_sensitive(expected, f) ==
    IF chksum_is_ok(f)
    THEN IF to_hex_lowercase(f) = expected THEN "Ok" ELSE "Failed"
    ELSE "Failed"

verify_file(expected, f) ==
    IF chksum_is_ok(f)
    THEN IF to_hex_lowercase(f) = to_lowercase(expected) THEN "Ok" ELSE "Failed"
    ELSE "Failed"

MaxHashLen == 2

Files == {[tag |-> "Missing"], [tag |-> "Unreadable"],
          [tag |-> "File", content |-> "x"], [tag |-> "File", content |-> "y"]}

InitVerify ==
    /\ pc = "verify"
    /\ file \in Files
    /\ expected_hash \in SeqsUpTo({"a", "b", "A", "B"}, MaxHashLen)
    /\ status = "NotVerified"
    /\ IdleMerge /\ IdlePlan /\ IdleEngine /\ IdleVersion

\* a call of verify_file(expected_hash, path)
VerifyFile ==
    /\ pc = "verify"
    /\ status' = verify_file(expected_hash, file)
    /\ pc' = "verified"
    /\ UNCHANGED <<versionVars, file, expected_hash, mergeVars, planVars, engineVars>>

NextVerify == VerifyFile

SpecVerify == InitVerify /\ [][NextVerify]_vars

\* the same hex digits, whatever their case
SameDigits(a, b) ==
    LET upper(c) == IF c = "a" THEN "A" ELSE IF c = "b" THEN "B" ELSE c
    IN  /\ Len(a) = Len(b)
        /\ \A i \in 1..Len(a) : upper(a[i]) = upper(b[i])

\* C7: verify_file returns Ok or Failed, never NotVerified: Ok exactly when the
\* file can be read and its digest is the expected hash up to the case of the
\* digits, Failed otherwise (a missing or unreadable file, an empty expected hash).
C7_VerifyFile ==
    pc = "verified" =>
        /\ status \in {"Ok", "Failed"}
        /\ status = "Ok" <=>
               (file.tag = "File" /\ SameDigits(to_hex_lowercase(file), expected_hash))
        /\ expected_hash = <<>> => status = "Failed"

\* a readable file whose digest is expected in another case
C7_Witness ==
    /\ pc = "verified"
    /\ status = "Ok"
    /\ expected_hash # to_hex_lowercase(file)


-----------------------------------------------------------------------------
(* The download engine: DownloaderService::new(..).with_downloads(..).run(..) *)
(* A pool of workers takes the descriptors one at a time; each worker checks   *)
(* whether the destination already holds the expected content, fetches it if   *)
(* not, verifies what was written, and pushes one result to the collector the  *)
(* workers share.  run returns the collector when every worker has finished.   *)

\* the number of workers of the pool
PoolSize == 2

Idle == [state |-> "idle", job |-> 0]

\* the skip check: the destination exists, a hash is expected, and it verifies
already_valid(d, onDisk) == d.sha1 # <<>> /\ d.output_path \in onDisk

\* the verification of a written file; nothing is verified without an expected hash
verification(d, onDisk) ==
    IF d.sha1 = <<>> THEN "NotVerified"
    ELSE IF d.output_path \in onDisk THEN "Ok" ELSE "Failed"

\* a variant that returns as soon as no descriptor is left to take
run_may_return_queue_empty(ws, nextJob, plan) == nextJob > Len(plan)

\* run returns when no descriptor is left and every worker has finished
run_may_return(ws, nextJob, plan) ==
    /\ nextJob > Len(plan)
    /\ \A w \in 1..PoolSize : ws[w].state = "idle"

\* a variant that reports an error as soon as one download failed
run_outcome_strict(rs) ==
    IF rs = <<>> \/ \E i \in 1..Len(rs) : rs[i].verify = "Failed"
    THEN [tag |-> "Err", val |-> "No Downloaded files"]
    ELSE [tag |-> "Ok", val |-> rs]

\* if results.is_empty() { return Err(..DownloadDefinition("No Downloaded files")) }
\* Ok(results)
run_outcome(rs) ==
    IF rs = <<>>
    THEN [tag |-> "Err", val |-> "No Downloaded files"]
    ELSE [tag |-> "Ok", val |-> rs]

\* .with_downloads(downloads).run(progress): the pool starts on the plan
StartRun ==
    /\ pc = "planned"
    /\ pc' = "running"
    /\ workers' = [w \in 1..PoolSize |-> Idle]
    /\ next_job' = 1
    /\ results' = <<>>
    /\ UNCHANGED <<versionVars, disk, ret, mergeVars, planVars, verifyVars>>

\* a free worker takes the next descriptor
TakeJob(w) ==
    /\ pc = "running"
    /\ workers[w].state = "idle"
    /\ next_job <= Len(downloads)
    /\ workers' = [workers EXCEPT ![w] = [state |-> "pending", job |-> next_job]]
    /\ next_job' = next_job + 1
    /\ UNCHANGED <<versionVars, pc, disk, results, ret, mergeVars, planVars, verifyVars>>

\* Pending: the skip check, which ends the job with a result or starts the download
SkipCheck(w) ==
    /\ pc = "running"
    /\ workers[w].state = "pending"
    /\ IF already_valid(downloads[workers[w].job], disk)
       THEN /\ results' = Append(results, [job |-> workers[w].job, verify |-> "Ok"])
            /\ workers' = [workers EXCEPT ![w] = Idle]
       ELSE /\ results' = results
            /\ workers' = [workers EXCEPT ![w].state = "downloading"]
    /\ UNCHANGED <<versionVars, pc, disk, next_job, ret, mergeVars, planVars, verifyVars>>

\* Downloading: the fetch fails (a Failed result), or the body is written to the
\* destination, intact or not
Fetch(w) ==
    /\ pc = "running"
    /\ workers[w].state = "downloading"
    /\ LET d == downloads[workers[w].job]
       IN  \E outcome \in {"unreachable", "intact", "corrupt"} :
               IF outcome = "unreachable"
               THEN /\ results' = Append(results, [job |-> workers[w].job, verify |-> "Failed"])
                    /\ workers' = [workers EXCEPT ![w] = Idle]
                    /\ disk' = disk
               ELSE /\ results' = results
                    /\ workers' = [workers EXCEPT ![w].state = "verifying"]
                    /\ disk' = IF outcome = "intact"
                               THEN disk \cup {d.output_path}
                               ELSE disk \ {d.output_path}
    /\ UNCHANGED <<versionVars, pc, next_job, ret, mergeVars, planVars, verifyVars>>

\* Verifying: the written file is verified and the result pushed
Verify(w) ==
    /\ pc = "running"
    /\ workers[w].state = "verifying"
    /\ results' = Append(results, [job    |-> workers[w].job,
                                   verify |-> verification(downloads[workers[w].job], disk)])
    /\ workers' = [workers EXCEPT ![w] = Idle]
    /\ UNCHANGED <<versionVars, pc, disk, next_job, ret, mergeVars, planVars, verifyVars>>

\* run returns the collector, and download_by_manifest returns what it makes of it
RunReturns ==
    /\ pc = "running"
    /\ run_may_return(workers, next_job, downloads)
    /\ ret' = run_outcome(results)
    /\ pc' = "returned"
    /\ UNCHANGED <<versionVars, disk, next_job, workers, results, mergeVars, planVars, verifyVars>>

-----------------------------------------------------------------------------
(* download_by_manifest as a whole: the plan, then the engine *)

MaxRunObjects == 1
MaxRunLibraries == 1

\* a library with an artifact and one without
RunLibs == {l \in PlanLibs : l.rules = None}

RunHashes == {<<"a", "b", "c">>, <<"a", "b", "d">>}

Init ==
    /\ pc = "plan"
    /\ manifest \in {ManifestWith(ls) : ls \in SeqsUpTo(RunLibs, MaxRunLibraries)}
    /\ asset_objects \in AssetIndexes(RunHashes, MaxRunObjects)
    /\ version_path = None
    /\ downloads = <<>>
    /\ disk \in {{}, {client_download(manifest, version_path).output_path}}
    /\ next_job = 1
    /\ workers = <<>>
    /\ results = <<>>
    /\ ret = None
    /\ IdleMerge /\ IdleVerify /\ IdleVersion

Next ==
    \/ BuildPlan
    \/ AssetIndexFetchFails
    \/ StartRun
    \/ \E w \in 1..PoolSize : TakeJob(w)
    \/ \E w \in 1..PoolSize : SkipCheck(w)
    \/ \E w \in 1..PoolSize : Fetch(w)
    \/ \E w \in 1..PoolSize : Verify(w)
    \/ RunReturns

Spec == Init /\ [][Next]_vars


-----------------------------------------------------------------------------
(* Claims about a run, checked under Spec *)

NoDownloadedFiles == [tag |-> "Err", val |-> "No Downloaded files"]

\* C8: a run that returns successfully returns exactly one result for every
\* descriptor of the plan, those that failed included, and returns when every
\* worker has finished.
C8_OneResultPerDescriptor ==
    (pc = "returned" /\ ret.tag = "Ok") =>
        /\ Len(ret.val) = Len(downloads)
        /\ \A i \in 1..Len(downloads) :
               Cardinality({k \in 1..Len(ret.val) : ret.val[k].job = i}) = 1
        /\ \A w \in 1..PoolSize : workers[w].state = "idle"

\* three descriptors, one of them unreachable: three results, two Ok and one Failed
C8_Witness ==
    /\ pc = "returned"
    /\ ret.tag = "Ok"
    /\ Len(downloads) = 3
    /\ Len(ret.val) = 3
    /\ Cardinality({k \in 1..3 : ret.val[k].verify = "Ok"}) = 2
    /\ Cardinality({k \in 1..3 : ret.val[k].verify = "Failed"}) = 1

\* C9: download_by_manifest returns the "No Downloaded files" error exactly when
\* the engine ran and its result list is empty, and returns the result list as
\* success when it is not empty, Failed entries or not.  The plan of
\* download_by_manifest always holds the client and the asset index, so the
\* test of the result list is also checked on result lists of its own.
C9_EmptyResultError ==
    /\ ret = NoDownloadedFiles <=> (pc = "returned" /\ results = <<>>)
    /\ (pc = "returned" /\ results # <<>>) => ret = [tag |-> "Ok", val |-> results]
    /\ \A rs \in SeqsUpTo({[job |-> 1, verify |-> v] : v \in {"Ok", "Failed", "NotVerified"}}, 2) :
           /\ run_outcome(rs) = NoDownloadedFiles <=> rs = <<>>
           /\ rs # <<>> => run_outcome(rs) = [tag |-> "Ok", val |-> rs]

\* a run whose every download failed still returns its results as success
C9_Witness ==
    /\ pc = "returned"
    /\ ret.tag = "Ok"
    /\ Len(ret.val) >= 3
    /\ \A k \in 1..Len(ret.val) : ret.val[k].verify = "Failed"


-----------------------------------------------------------------------------
(* client_downloader.rs: get_version and download_version *)

\* u8::to_ascii_lowercase on the characters a version id is written with
to_ascii_lowercase(s) ==
    [i \in 1..Len(s) |-> IF s[i] = "A" THEN "a" ELSE IF s[i] = "B" THEN "b" ELSE s[i]]

\* str::eq_ignore_ascii_case
eq_ignore_ascii_case(a, b) == to_ascii_lowercase(a) = to_ascii_lowercase(b)

\* a variant that compares the ids as they are written
get_version_exact(versions, id) ==
    IF \A i \in 1..Len(versions) : versions[i].id # id
    THEN None
    ELSE Some(versions[CHOOSE i \in 1..Len(versions) :
                           /\ versions[i].id = id
                           /\ \A j \in 1..(i - 1) : versions[j].id # id])

\* self.main_manifest.versions.iter().find(|v| v.id.eq_ignore_ascii_case(id))
get_version(versions, id) ==
    IF \A i \in 1..Len(versions) : ~eq_ignore_ascii_case(versions[i].id, id)
    THEN None
    ELSE Some(versions[CHOOSE i \in 1..Len(versions) :
                           /\ eq_ignore_ascii_case(versions[i].id, id)
                           /\ \A j \in 1..(i - 1) : ~eq_ignore_ascii_case(versions[j].id, id)])

\* the game_path argument
game_path == <<"game">>

\* Path::parent: the path without its last component
parent(path) ==
    LET parts == split(path, "/") IN join(SubSeq(parts, 1, Len(parts) - 1), "/")

\* manifest_path.unwrap_or(&game_path.join("manifest.json"))
manifest_path_or_default(mp) == unwrap_or(mp, path_push(game_path, <<"manifest.json">>))

\* game_path.join("launcher_profiles.json")
profile_json_path == path_push(game_path, <<"launcher_profiles.json">>)

\* the URL setup_fabric requests
fabric_profile_url(id, launcher_id) ==
    Concat(<<<<"https://meta.fabricmc.net/v2/versions/loader/">>, id, <<"/">>,
             launcher_id, <<"/profile/json">>>>)

Get(url) == [op |-> "get", target |-> url]

CreateDirAll(path) == [op |-> "create_dir_all", target |-> path]

Write(path, content) == [op |-> "write", target |-> path, content |-> content]

\* what lines 143-148 do to the file system, in order
write_manifest_effects(m, mp) ==
    <<CreateDirAll(game_path),
      CreateDirAll(parent(manifest_path_or_default(mp))),
      Write(manifest_path_or_default(mp), m),
      Write(profile_json_path, "ProfileJson::default()")>>

\* the manifest_path and launcher_id arguments
manifest_path_arg == None

launcher_id_arg == <<"0.15">>

-----------------------------------------------------------------------------
(* The launcher manifests and the ids download_version is called with *)

MaxVersions == 2

VersionIds == {<<"1", "a">>, <<"1", "A">>, <<"1", "b">>}

\* the i-th entry of the launcher manifest: every entry has a URL of its own
LauncherManifests ==
    UNION {{[i \in 1..k |-> [id |-> ids[i], url |-> <<"https://meta/v", ToString(i), ".json">>]] :
               ids \in [1..k -> VersionIds]} : k \in 0..MaxVersions}

Launchers == {None, Some("Fabric"), Some("Forge")}

\* the Fabric profiles the Fabric meta server may serve: a well-formed and a
\* malformed library
ServedFabricManifests ==
    {f \in FabricManifests :
        /\ Len(f.libraries) = 1
        /\ f.arguments.game # <<>>
        /\ f.libraries[1].sha1 # None
        /\ f.libraries[1].name \in {<<"o", ":", "l", ":", "1">>, <<"o", ":", "l">>}}

\* the version manifest served at the URL of a launcher manifest entry
served_manifest(v) == [ManifestWith(<<>>) EXCEPT !.id = v.id]

\* the asset index document served for it
served_objects == <<[name |-> ObjectName(1), hash |-> <<"a", "b", "c">>, size |-> 4]>>

InitVersion ==
    /\ pc = "download_version"
    /\ main_manifest \in LauncherManifests
    /\ version_id \in VersionIds
    /\ launcher \in Launchers
    /\ version_option = None
    /\ effects = <<>>
    /\ base_manifest = None
    /\ fabric_manifest \in ServedFabricManifests
    /\ resolved = None
    /\ manifest = None
    /\ asset_objects = served_objects
    /\ version_path = None
    /\ downloads = <<>>
    /\ IdleVerify /\ IdleEngine

\* lines 117-128: get_version, and the return of NoSuchVersion
GetVersion ==
    /\ pc = "download_version"
    /\ version_option' = get_version(main_manifest, version_id)
    /\ IF version_option'.tag = "None"
       THEN pc' = "no_such_version" /\ ret' = [tag |-> "Err", val |-> "NoSuchVersion"]
       ELSE pc' = "fetch_manifest" /\ ret' = ret
    /\ UNCHANGED <<main_manifest, version_id, launcher, effects, mergeVars, planVars,
                   verifyVars, disk, next_job, workers, results>>

\* lines 129-130: client.get(&version.url).send()? and response.json()?
FetchManifest ==
    /\ pc = "fetch_manifest"
    /\ effects' = Append(effects, Get(version_option.val.url))
    /\ \E outcome \in {"ok", "error"} :
           IF outcome = "ok"
           THEN /\ base_manifest' = served_manifest(version_option.val)
                /\ pc' = "launcher"
                /\ ret' = ret
           ELSE /\ base_manifest' = base_manifest
                /\ pc' = "io_error"
                /\ ret' = [tag |-> "Err", val |-> "Request"]
    /\ UNCHANGED <<main_manifest, version_id, launcher, version_option, fabric_manifest,
                   resolved, planVars, verifyVars, disk, next_job, workers, results>>

\* lines 132-141: Fabric goes through setup_fabric(..).unwrap(), which requests the
\* profile and merges it; any other launcher keeps the manifest as fetched
MatchLauncher ==
    /\ pc = "launcher"
    /\ IF unwrap_or(launcher, "Vanilla") = "Fabric"
       THEN /\ effects' = Append(effects, Get(fabric_profile_url(version_id, launcher_id_arg)))
            /\ \E outcome \in {"ok", "error"} :
                   LET r == manifest_from_fabric(fabric_manifest, base_manifest)
                   IN  IF outcome = "ok" /\ r.tag = "Ok"
                       THEN /\ base_manifest' = r.base_manifest
                            /\ resolved' = Some(r.val)
                            /\ pc' = "write_manifest"
                       ELSE /\ base_manifest' = base_manifest
                            /\ resolved' = resolved
                            /\ pc' = "panicked"
       ELSE /\ effects' = effects
            /\ base_manifest' = base_manifest
            /\ resolved' = Some(base_manifest)
            /\ pc' = "write_manifest"
    /\ UNCHANGED <<main_manifest, version_id, launcher, version_option, fabric_manifest,
                   planVars, verifyVars, engineVars>>

\* lines 143-149: the manifest and the profiles are written, then
\* download_by_manifest is called with the manifest
WriteManifest ==
    /\ pc = "write_manifest"
    /\ \E outcome \in {"ok", "error"} :
           IF outcome = "ok"
           THEN /\ effects' = effects \o write_manifest_effects(resolved.val, manifest_path_arg)
                /\ manifest' = resolved.val
                /\ pc' = "plan"
                /\ ret' = ret
           ELSE /\ effects' = Append(effects, CreateDirAll(game_path))
                /\ manifest' = manifest
                /\ pc' = "io_error"
                /\ ret' = [tag |-> "Err", val |-> "Io"]
    /\ UNCHANGED <<main_manifest, version_id, launcher, version_option, mergeVars,
                   asset_objects, version_path, downloads, verifyVars,
                   disk, next_job, workers, results>>

NextVersion ==
    \/ GetVersion
    \/ FetchManifest
    \/ MatchLauncher
    \/ WriteManifest
    \/ BuildPlan
    \/ AssetIndexFetchFails
    \/ StartRun
    \/ \E w \in 1..PoolSize : TakeJob(w)
    \/ \E w \in 1..PoolSize : SkipCheck(w)
    \/ \E w \in 1..PoolSize : Fetch(w)
    \/ \E w \in 1..PoolSize : Verify(w)
    \/ RunReturns

SpecVersion == InitVersion /\ [][NextVersion]_vars


-----------------------------------------------------------------------------
(* Claims about download_version, checked under SpecVersion *)

\* the same id up to the case of its ASCII letters
SameId(a, b) ==
    /\ Len(a) = Len(b)
    /\ \A i \in 1..Len(a) : a[i] = b[i] \/ {a[i], b[i]} \in {{"a", "A"}, {"b", "B"}}

Matching == {i \in 1..Len(main_manifest) : SameId(main_manifest[i].id, version_id)}

FirstMatching == CHOOSE i \in Matching : \A j \in Matching : i <= j

\* C12: with a version id that matches no entry of the launcher manifest (ASCII
\* case ignored), download_version returns NoSuchVersion and has done nothing:
\* no request, no directory, no file, no plan, no download.  With a known id, the
\* first matching entry is the one fetched, and the resolved manifest is written
\* to the manifest file before the plan is built and before the engine runs.
C12_NoSuchVersionFirst ==
    /\ (pc # "download_version" /\ Matching = {}) =>
           /\ pc = "no_such_version"
           /\ ret = [tag |-> "Err", val |-> "NoSuchVersion"]
           /\ effects = <<>>
           /\ base_manifest = None
           /\ manifest = None
           /\ downloads = <<>>
           /\ workers = <<>>
           /\ results = <<>>
           /\ disk = {}
    /\ ret = [tag |-> "Err", val |-> "NoSuchVersion"] => Matching = {}
    /\ effects # <<>> =>
           /\ Matching # {}
           /\ effects[1] = [op |-> "get", target |-> main_manifest[FirstMatching].url]
    /\ (downloads # <<>> \/ workers # <<>> \/ pc \in {"plan", "planned", "running", "returned"}) =>
           /\ manifest = resolved.val
           /\ \E k \in 1..Len(effects) :
                  effects[k] = [op      |-> "write",
                                target  |-> <<"game", "/", "manifest.json">>,
                                content |-> manifest]

\* an unknown id, asked of a launcher manifest that lists other versions
C12_Witness ==
    /\ pc = "no_such_version"
    /\ Len(main_manifest) = 2
    /\ main_manifest[1].id # main_manifest[2].id
    /\ launcher = Some("Fabric")

=============================================================================
